---- MODULE Spec2Model ----
(***************************************************************************)
(* The chat client of trip_planner: the streaming ChatInterface component  *)
(* (React state, the sendMessage coroutine and its decode loop) together   *)
(* with the network it talks to.                                           *)
(*                                                                         *)
(* Text is a sequence of one-character strings.  The response body is a    *)
(* sequence of tokens: an event line is D1 D2 J1 J2 NL, where D1 D2 are    *)
(* the two halves of the literal 'data: ', J1 J2 the two halves of the     *)
(* JSON payload and NL the newline; any other line is X NL.  A read block  *)
(* is any non-empty run of tokens, so a block boundary can fall inside the *)
(* prefix, between prefix and payload, inside the payload, or on a line    *)
(* boundary.                                                               *)
(***************************************************************************)
EXTENDS Integers, Sequences, FiniteSets, TLC

\* ------------------------------------------------------------------ bounds
\* network traffic of a run: requests issued plus response lines sent
MaxTraffic == 4

\* --------------------------------------------------------------- JS values
NULL == "<null>"
UNDEF == "<undefined>"
SessionIds == {"A", "B"}

Apology == <<"Sorry, I encountered an error. Please try again.">>

\* drafts the user can type; " " is a whitespace character
Drafts == {<<>>, <<" ">>, <<" ", "q", " ">>}

\* ------------------------------------------------- payloads on the wire
Obj(o) == [k |-> "obj", o |-> o]

ChunkA == Obj([chunk |-> <<"a">>, session_id |-> "A"])
ChunkB == Obj([chunk |-> <<"b">>, session_id |-> "B"])
ChunkNoSid == Obj([chunk |-> <<"b">>])
ChunkEmpty == Obj([chunk |-> <<>>, session_id |-> "B"])
DoneB == Obj([done |-> TRUE, session_id |-> "B"])
DoneNoSid == Obj([done |-> TRUE])
ErrorBoom == Obj([error |-> <<"x">>])
ErrorEmpty == Obj([error |-> <<>>])
ErrorAndChunk == Obj([error |-> <<"x">>, chunk |-> <<"a">>])
DoneAndChunk == Obj([done |-> TRUE, chunk |-> <<"a">>, session_id |-> "B"])
OtherObj == Obj([other |-> TRUE])
JsonNull == [k |-> "null"]
NotJson == [k |-> "bad"]

\* no response body received yet
NoBody == [k |-> "none"]

Payloads ==
    {ChunkA, ChunkB, ChunkNoSid, ChunkEmpty, DoneB, DoneNoSid, ErrorBoom,
     ErrorEmpty, ErrorAndChunk, DoneAndChunk, OtherObj, JsonNull, NotJson}

\* a line of the body: an event line carrying a payload, or a line without
\* the event prefix
EventLine(p) == [prefixed |-> TRUE, p |-> p]
PlainLine == [prefixed |-> FALSE]
Lines == {EventLine(p) : p \in Payloads} \cup {PlainLine}

\* the lines one backend may send in a run.  The backends are: the documented
\* protocol; increments that leave session_id out or carry an empty text;
\* increments with an empty error text or with two of the fields error, done,
\* chunk; JSON values that are no increment; lines that are no JSON or no
\* event line
Backends ==
    {{EventLine(ChunkA), EventLine(ChunkB), EventLine(DoneB), EventLine(ErrorBoom)},
     {EventLine(ChunkA), EventLine(ChunkNoSid), EventLine(ChunkEmpty),
      EventLine(DoneNoSid)},
     {EventLine(ChunkA), EventLine(ErrorEmpty), EventLine(ErrorAndChunk),
      EventLine(DoneAndChunk)},
     {EventLine(ChunkA), EventLine(DoneB), EventLine(OtherObj), EventLine(JsonNull)},
     {EventLine(ChunkA), EventLine(DoneB), EventLine(NotJson), PlainLine}}

Tok(t) == [t |-> t]
TokJ(t, p) == [t |-> t, p |-> p]

\* the bytes of one line, newline included
Bytes(line) ==
    IF line.prefixed
    THEN <<Tok("D1"), Tok("D2"), TokJ("J1", line.p), TokJ("J2", line.p), Tok("NL")>>
    ELSE <<Tok("X"), Tok("NL")>>

\* ------------------------------------------------------------ pure helpers
RECURSIVE TrimStart(_)
TrimStart(s) == IF s # <<>> /\ Head(s) = " " THEN TrimStart(Tail(s)) ELSE s

RECURSIVE TrimEnd(_)
TrimEnd(s) ==
    IF s # <<>> /\ s[Len(s)] = " " THEN TrimEnd(SubSeq(s, 1, Len(s) - 1)) ELSE s

\* String.prototype.trim
Trim(s) == TrimEnd(TrimStart(s))

\* String.prototype.split('\n') on a block of tokens
RECURSIVE SplitFrom(_, _, _)
SplitFrom(block, cur, out) ==
    IF block = <<>> THEN Append(out, cur)
    ELSE IF Head(block).t = "NL" THEN SplitFrom(Tail(block), <<>>, Append(out, cur))
    ELSE SplitFrom(Tail(block), Append(cur, Head(block)), out)

Split(block) == SplitFrom(block, <<>>, <<>>)

\* a test that lets every non-empty line through
StartsWithAnything(line) == line # <<>>

\* line.startsWith('data: ')
StartsWithData(line) == Len(line) >= 2 /\ line[1].t = "D1" /\ line[2].t = "D2"

\* line.slice(6)
Slice6(line) == SubSeq(line, 3, Len(line))

\* JSON.parse: the whole text of a JSON value parses to that value; nothing
\* else parses (an empty text, half a payload, text that is no JSON)
JSONParse(text) ==
    IF Len(text) = 2 /\ text[1].t = "J1" /\ text[2].t = "J2" /\ text[1].p.k # "bad"
    THEN [ok |-> TRUE, data |-> text[1].p]
    ELSE [ok |-> FALSE]

\* property reads on a parsed object; an absent property reads undefined
Has(o, f) == f \in DOMAIN o
SessionOf(o) == IF Has(o, "session_id") THEN o.session_id ELSE UNDEF

\* JS truthiness of data.error, data.done, data.chunk
ErrorTruthy(o) == Has(o, "error") /\ o.error # <<>>
DoneTruthy(o) == Has(o, "done") /\ o.done
ChunkTruthy(o) == Has(o, "chunk") /\ o.chunk # <<>>

\* a map without the index test
MapContentAll(prev, index, content) ==
    [i \in 1..Len(prev) |-> [prev[i] EXCEPT !.content = content]]

\* a write that appends a message instead of replacing a content
MapContentAppends(prev, index, content) ==
    Append(prev, [role |-> "assistant", content |-> content])

\* a map that compares the 1-based position with the 0-based index
MapContentOffByOne(prev, index, content) ==
    [i \in 1..Len(prev) |->
        IF i = index THEN [prev[i] EXCEPT !.content = content] ELSE prev[i]]

\* prev.map((msg, idx) => idx === index ? { ...msg, content } : msg), index 0-based
MapContent(prev, index, content) ==
    [i \in 1..Len(prev) |->
        IF i - 1 = index THEN [prev[i] EXCEPT !.content = content] ELSE prev[i]]

\* a user message tagged with the other role
UserMsgAsAssistant(c) == [role |-> "assistant", content |-> c]

UserMsg(c) == [role |-> "user", content |-> c]
AssistantMsg(c) == [role |-> "assistant", content |-> c]

\* ------------------------------------------------------ the decode loop
\* st: the Store fields and locals the loop touches, the histories, and
\* status: "run", "break" (left the for loop) or "throw"

\* an exception handler that also forgets the session
ThrowResetsSession(st) == [st EXCEPT !.status = "throw", !.sessionId = NULL]

\* an exception leaves the loops for the catch block; no Store write is made
Throw(st) == [st EXCEPT !.status = "throw"]

\* a buffer that grows at the front
AccumulatePrepend(acc, chunk) == chunk \o acc

\* a write of the latest chunk alone
AccumulateLatestOnly(acc, chunk) == chunk

\* accumulatedContent += data.chunk
Accumulate(acc, chunk) == acc \o chunk

\* a dispatch that tests chunk before done
DispatchChunkFirst(data) ==
    IF ErrorTruthy(data) THEN "error"
    ELSE IF ChunkTruthy(data) THEN "chunk"
    ELSE IF DoneTruthy(data) THEN "done"
    ELSE "none"

\* the if statements on data.error, data.done, data.chunk, in their order
Dispatch(data) ==
    IF ErrorTruthy(data) THEN "error"
    ELSE IF DoneTruthy(data) THEN "done"
    ELSE IF ChunkTruthy(data) THEN "chunk"
    ELSE "none"

\* the body of `for (const line of lines)` for one line
LineStep(line, st, index) ==
    IF ~StartsWithData(line) THEN st
    ELSE LET r == JSONParse(Slice6(line)) IN
        IF ~r.ok
        THEN Throw([st EXCEPT !.incs = Append(@, NotJson)])
        ELSE LET seen == [st EXCEPT !.incs = Append(@, r.data)] IN
            IF r.data.k = "null"
            THEN Throw(seen)                           \* TypeError on data.error
            ELSE LET data == r.data.o
                     branch == Dispatch(data)
                 IN
                IF branch = "error" THEN Throw(seen)
                ELSE IF branch = "done"
                THEN [seen EXCEPT !.sessionId = SessionOf(data),
                                  !.lastWrite = "setSessionId",
                                  !.status = "break"]
                ELSE IF branch = "chunk"
                THEN LET acc == Accumulate(st.acc, data.chunk) IN
                     [seen EXCEPT !.acc = acc,
                                  !.messages = MapContent(@, index, acc),
                                  !.sessionId = SessionOf(data),
                                  !.lastWrite = "setSessionId"]
                ELSE seen

\* the for loop over the lines of one block
RECURSIVE ForLines(_, _, _)
ForLines(lines, st, index) ==
    IF lines = <<>> \/ st.status # "run" THEN st
    ELSE ForLines(Tail(lines), LineStep(Head(lines), st, index), index)

\* one iteration of the while loop on a block that was read
DecodeBlock(block, st, index) == ForLines(Split(block), st, index)

VARIABLES
    messages,       \* useState<Message[]>
    input,          \* useState('')
    sessionId,      \* useState<string | null>
    isLoading,      \* useState(false)
    view,           \* the state values captured by the last render's closures
    pc,             \* position of the sendMessage coroutine
    call,           \* locals of the running sendMessage call
    requests,       \* bodies of the requests issued to /api/chat/stream
    backend,        \* the lines the backend of this run may send
    wire,           \* response bytes sent by the backend and not yet read
    sentShape,      \* history: shape of the lines sent in this exchange
    sentText,       \* history: chunk texts sent in this exchange, concatenated
    outcome,        \* history: how the latest exchange ended
    total,          \* history: requests issued plus lines sent so far
    incs,           \* history: payload of every prefixed line the loop parsed
    lastWrite,      \* history: the latest Store mutation made by sendMessage
    clears,         \* history: number of setIsLoading(false) calls so far
    submitted,      \* history: the draft the latest exchange was started with
    reply,          \* history: the body of the latest /api/chat response
    backendStatus,  \* App: useState<'loading' | 'healthy' | 'error'>
    healthPc,       \* App: position of the health check effect and its promise chain
    healthRequests, \* App: number of requests issued to /api/health
    healthBody      \* history: the body of the /api/health response

vars == <<messages, input, sessionId, isLoading, view, pc, call, requests,
          backend, wire, sentShape, sentText, total, incs, outcome,
          lastWrite, clears, submitted, reply, backendStatus, healthPc,
          healthRequests, healthBody>>

\* the state of the single-shot chat reply and of the App component, which the
\* streaming ChatInterface does not touch
page == <<reply, backendStatus, healthPc, healthRequests, healthBody>>

store == <<messages, input, sessionId, isLoading>>
sentHist == <<sentShape, sentText, total>>
hist == <<backend, sentHist, incs, outcome, lastWrite, clears, submitted, page>>

\* ------------------------------------------------------------------ state
\* the increments of the documented protocol, by their fields
IsChunk(p) == p.k = "obj" /\ Has(p.o, "chunk") /\ DOMAIN p.o \subseteq {"chunk", "session_id"}
IsDone(p) == p.k = "obj" /\ Has(p.o, "done") /\ DOMAIN p.o \subseteq {"done", "session_id"}
IsError(p) == p.k = "obj" /\ Has(p.o, "error")
IsChunkLine(line) == line.prefixed /\ IsChunk(line.p)
IsDoneLine(line) == line.prefixed /\ IsDone(line.p)

\* the shape of the lines sent so far: "chunks" while only chunk increments
\* were sent, "done" once a done increment has followed them as the last
\* line, "other" for every other sequence of lines
NextShape(shape, line) ==
    IF shape = "chunks" /\ IsChunkLine(line) THEN "chunks"
    ELSE IF shape = "chunks" /\ IsDoneLine(line) THEN "done"
    ELSE "other"

NoCall == [userMessage |-> <<>>, assistantMessageIndex |-> 0, accumulatedContent |-> <<>>]

\* what a render captures for the closures of sendMessage
Snapshot(m, i, s, l) ==
    [messagesLength |-> Len(m), input |-> i, sessionId |-> s, isLoading |-> l]

\* a request body that never names a session
StringifyNullSession(message, sid) == [message |-> message, session_id |-> NULL]

\* JSON.stringify of the request body: an undefined property is left out
Stringify(message, sid) ==
    IF sid = UNDEF THEN [message |-> message]
    ELSE [message |-> message, session_id |-> sid]

Init ==
    /\ messages = <<>>
    /\ input = <<>>
    /\ sessionId = NULL
    /\ isLoading = FALSE
    /\ view = Snapshot(<<>>, <<>>, NULL, FALSE)
    /\ pc = "idle"
    /\ call = NoCall
    /\ requests = <<>>
    /\ backend \in Backends
    /\ wire = <<>>
    /\ sentShape = "chunks"
    /\ sentText = <<>>
    /\ outcome = "none"
    /\ total = 0
    /\ incs = <<>>
    /\ lastWrite = "none"
    /\ clears = 0
    /\ submitted = <<>>
    /\ reply = NoBody
    /\ backendStatus = "loading"
    /\ healthPc = "mount"
    /\ healthRequests = 0
    /\ healthBody = NoBody

\* --------------------------------------------------------------- actions
\* onChange of the input (disabled while the rendered isLoading is true):
\* setInput(e.target.value), rendered with the event
Type(d) ==
    /\ ~view.isLoading
    /\ d # input
    /\ input' = d
    /\ view' = [view EXCEPT !.input = d]
    /\ UNCHANGED <<messages, sessionId, isLoading, pc, call, requests, wire, hist>>

\* a sendMessage without its guard
AcceptsAlways(v) == TRUE

\* a guard that tests the draft without trimming it
AcceptsNoTrim(v) == ~(v.input = <<>> \/ v.isLoading)

\* the precondition of sendMessage, on the values its closure captured
Accepts(v) == ~(Trim(v.input) = <<>> \/ v.isLoading)

\* the draft sent as typed
UserMessageRaw(v) == v.input

\* const userMessage = input.trim()
UserMessageOf(v) == Trim(v.input)

\* sendMessage (from handleSubmit or handleKeyDown) returning at its guard
SendRejected ==
    /\ ~Accepts(view)
    /\ UNCHANGED vars

\* a start that leaves the draft in the input
SendStartKeepsDraft ==
    /\ Accepts(view)
    /\ total < MaxTraffic
    /\ LET userMessage == UserMessageOf(view)
           assistantMessageIndex == view.messagesLength + 1
           m == messages \o <<UserMsg(userMessage), AssistantMsg(<<>>)>>
       IN /\ input' = input
          /\ isLoading' = TRUE
          /\ messages' = m
          /\ call' = [userMessage |-> userMessage,
                      assistantMessageIndex |-> assistantMessageIndex,
                      accumulatedContent |-> <<>>]
          /\ requests' = Append(requests, Stringify(userMessage, view.sessionId))
          /\ view' = Snapshot(m, input, sessionId, TRUE)
    /\ pc' = "fetch"
    /\ wire' = <<>>
    /\ sentShape' = "chunks"
    /\ sentText' = <<>>
    /\ outcome' = "none"
    /\ incs' = <<>>
    /\ lastWrite' = "setMessages"
    /\ submitted' = view.input
    /\ total' = total + 1
    /\ UNCHANGED <<sessionId, backend, page, clears>>

\* the index computed once, from the list of the first render
AssistantMessageIndexFirst(v) == 1

\* the position of the user message
AssistantMessageIndexOfUser(v) == v.messagesLength

\* const assistantMessageIndex = messages.length + 1
AssistantMessageIndexOf(v) == v.messagesLength + 1

\* sendMessage up to its first await: the Store updates and the fetch call
SendStart ==
    /\ Accepts(view)
    /\ total < MaxTraffic
    /\ LET userMessage == UserMessageOf(view)
           assistantMessageIndex == AssistantMessageIndexOf(view)
           m == messages \o <<UserMsg(userMessage), AssistantMsg(<<>>)>>
       IN /\ input' = <<>>
          /\ isLoading' = TRUE
          /\ messages' = m
          /\ call' = [userMessage |-> userMessage,
                      assistantMessageIndex |-> assistantMessageIndex,
                      accumulatedContent |-> <<>>]
          /\ requests' = Append(requests, Stringify(userMessage, view.sessionId))
          /\ view' = Snapshot(m, <<>>, sessionId, TRUE)
    /\ pc' = "fetch"
    /\ wire' = <<>>
    /\ sentShape' = "chunks"
    /\ sentText' = <<>>
    /\ outcome' = "none"
    /\ incs' = <<>>
    /\ lastWrite' = "setMessages"
    /\ submitted' = view.input
    /\ total' = total + 1
    /\ UNCHANGED <<sessionId, backend, page, clears>>

\* a clear of the flag at the end of the try block instead of in finally
FinallyOnlyOnSuccess(how) ==
    /\ outcome' = how
    /\ isLoading' = (IF how = "closed" THEN FALSE ELSE isLoading)
    /\ lastWrite' = "setIsLoading(false)"
    /\ clears' = clears + 1
    /\ pc' = "idle"
    /\ call' = NoCall
    /\ wire' = <<>>

\* finally of sendMessage; how records what ended the exchange
Finally(how) ==
    /\ outcome' = how
    /\ isLoading' = FALSE
    /\ lastWrite' = "setIsLoading(false)"
    /\ clears' = clears + 1
    /\ pc' = "idle"
    /\ call' = NoCall
    /\ wire' = <<>>          \* the response is dropped with the call

\* a catch block that is not followed by a finally block
CatchNoFinally(m, how) ==
    /\ messages' = MapContent(m, call.assistantMessageIndex, Apology)
    /\ outcome' = how
    /\ lastWrite' = "setMessages"
    /\ pc' = "idle"
    /\ call' = NoCall
    /\ wire' = <<>>
    /\ UNCHANGED <<isLoading, clears>>

\* a catch block that only logs the error
CatchLogOnly(m, how) ==
    /\ messages' = m
    /\ Finally(how)

\* catch of sendMessage, the apology write on the messages m, and finally
Catch(m, how) ==
    /\ messages' = MapContent(m, call.assistantMessageIndex, Apology)
    /\ Finally(how)

\* a rejected fetch that is issued again
FetchRejectRetries ==
    /\ pc = "fetch"
    /\ requests' = Append(requests, requests[Len(requests)])
    /\ UNCHANGED <<store, view, pc, call, wire, backend, page, sentHist, incs, outcome,
                   lastWrite, clears, submitted>>

\* the fetch promise rejects
FetchReject ==
    /\ pc = "fetch"
    /\ Catch(messages, "fetch")
    /\ UNCHANGED <<input, sessionId, view, requests, backend, page, sentHist, incs, submitted>>

\* a response whose arrival already clears the flag
FetchResolveClearsBusy(ok, body) ==
    /\ pc = "fetch"
    /\ IF ~ok THEN Catch(messages, "status")
       ELSE IF ~body THEN Catch(messages, "body")
       ELSE /\ pc' = "read"
            /\ isLoading' = FALSE
            /\ call' = [call EXCEPT !.accumulatedContent = <<>>]
            /\ UNCHANGED <<messages, wire, outcome, lastWrite, clears>>
    /\ UNCHANGED <<input, sessionId, view, requests, backend, page, sentHist, incs, submitted>>

\* the fetch promise resolves: !response.ok and a missing body both throw
FetchResolve(ok, body) ==
    /\ pc = "fetch"
    /\ IF ~ok THEN Catch(messages, "status")
       ELSE IF ~body THEN Catch(messages, "body")
       ELSE /\ pc' = "read"
            /\ call' = [call EXCEPT !.accumulatedContent = <<>>]
            /\ UNCHANGED <<messages, isLoading, wire, outcome, lastWrite, clears>>
    /\ UNCHANGED <<input, sessionId, view, requests, backend, page, sentHist, incs, submitted>>

\* the backend writes one more line to the response body
ServerSend(line) ==
    /\ pc = "read"
    /\ total < MaxTraffic
    /\ wire' = wire \o Bytes(line)
    /\ sentShape' = NextShape(sentShape, line)
    /\ sentText' = IF IsChunkLine(line) THEN sentText \o line.p.o.chunk ELSE sentText
    /\ total' = total + 1
    /\ line \in backend
    /\ UNCHANGED <<store, view, pc, call, requests, backend, page, incs, outcome, lastWrite,
                   clears, submitted>>

\* reader.read() resolves with the next n bytes: one pass of the while body
ReadBlock(n) ==
    /\ pc = "read"
    /\ n \in 1..Len(wire)
    /\ LET st == DecodeBlock(SubSeq(wire, 1, n),
                             [messages |-> messages, sessionId |-> sessionId,
                              acc |-> call.accumulatedContent, incs |-> incs,
                              lastWrite |-> lastWrite, status |-> "run"],
                             call.assistantMessageIndex)
       IN /\ sessionId' = st.sessionId
          /\ incs' = st.incs
          /\ IF st.status = "throw"
             THEN Catch(st.messages, "decode")
             ELSE /\ messages' = st.messages
                  /\ call' = [call EXCEPT !.accumulatedContent = st.acc]
                  /\ lastWrite' = st.lastWrite
                  /\ wire' = SubSeq(wire, n + 1, Len(wire))
                  /\ UNCHANGED <<isLoading, pc, outcome, clears>>
    /\ UNCHANGED <<input, view, requests, backend, page, sentHist, submitted>>

\* an end of stream that is handled as a failure
ReadDoneAsFailure ==
    /\ pc = "read"
    /\ wire = <<>>
    /\ Catch(messages, "closed")
    /\ UNCHANGED <<input, sessionId, view, requests, backend, page, sentHist, incs, submitted>>

\* reader.read() resolves with done: the while loop ends, finally runs
ReadDone ==
    /\ pc = "read"
    /\ wire = <<>>
    /\ Finally("closed")
    /\ UNCHANGED <<messages, input, sessionId, view, requests, backend, page, sentHist, incs,
                   submitted>>

\* reader.read() rejects
ReadFail ==
    /\ pc = "read"
    /\ Catch(messages, "read")
    /\ UNCHANGED <<input, sessionId, view, requests, backend, page, sentHist, incs, submitted>>

\* React renders the updates queued by the coroutine after an await
Render ==
    /\ view # Snapshot(messages, input, sessionId, isLoading)
    /\ view' = Snapshot(messages, input, sessionId, isLoading)
    /\ UNCHANGED <<store, pc, call, requests, wire, hist>>

Next ==
    \/ \E d \in Drafts : Type(d)
    \/ SendRejected
    \/ SendStart
    \/ FetchReject
    \/ \E ok \in BOOLEAN, body \in BOOLEAN : FetchResolve(ok, body)
    \/ \E line \in Lines : ServerSend(line)
    \/ \E n \in 1..(5 * MaxTraffic) : ReadBlock(n)
    \/ ReadDone
    \/ ReadFail
    \/ Render

Spec == Init /\ [][Next]_vars

\* ------------------------------------------- the single-shot ChatInterface
\* The single-shot version of the component has the same Store, the same
\* guard and the same input handlers; it appends the assistant message when
\* the reply has arrived instead of filling a placeholder.

\* bodies of a /api/chat response
ReplyA == Obj([response |-> <<"r">>, session_id |-> "A"])
ReplyB == Obj([response |-> <<"s">>, session_id |-> "B"])
ReplyNoSid == Obj([response |-> <<"r">>])
Replies == {ReplyA, ReplyB, ReplyNoSid, JsonNull, NotJson}

\* data.response
ResponseOf(o) == IF Has(o, "response") THEN o.response ELSE UNDEF

health == <<backendStatus, healthPc, healthRequests, healthBody>>
streamOnly == <<backend, sentShape, sentText, incs>>

\* sendMessage up to its first await: the Store updates and the fetch call
SingleSendStart ==
    /\ Accepts(view)
    /\ total < MaxTraffic
    /\ LET userMessage == UserMessageOf(view)
           m == Append(messages, UserMsg(userMessage))
       IN /\ input' = <<>>
          /\ isLoading' = TRUE
          /\ messages' = m
          /\ call' = [NoCall EXCEPT !.userMessage = userMessage]
          /\ requests' = Append(requests, Stringify(userMessage, view.sessionId))
          /\ view' = Snapshot(m, <<>>, sessionId, TRUE)
    /\ pc' = "fetch"
    /\ outcome' = "none"
    /\ lastWrite' = "setMessages"
    /\ submitted' = view.input
    /\ total' = total + 1
    /\ UNCHANGED <<sessionId, wire, clears, reply, streamOnly, health>>

\* a catch block that only logs the error
SingleCatchLogOnly(how) ==
    /\ messages' = messages
    /\ Finally(how)

\* catch of sendMessage, which appends the apology message, and finally
SingleCatch(how) ==
    /\ messages' = Append(messages, AssistantMsg(Apology))
    /\ Finally(how)

\* the fetch promise rejects
SingleFetchReject ==
    /\ pc = "fetch"
    /\ SingleCatch("fetch")
    /\ UNCHANGED <<input, sessionId, view, requests, total, submitted, reply,
                   streamOnly, health>>

\* the fetch promise resolves: !response.ok throws, else response.json() is
\* awaited
SingleFetchResolve(ok) ==
    /\ pc = "fetch"
    /\ IF ~ok THEN SingleCatch("status")
       ELSE /\ pc' = "json"
            /\ UNCHANGED <<messages, isLoading, call, wire, outcome, lastWrite, clears>>
    /\ UNCHANGED <<input, sessionId, view, requests, total, submitted, reply,
                   streamOnly, health>>

\* a reply that is appended without its session_id being stored
SingleJsonKeepsSession(body) ==
    /\ pc = "json"
    /\ reply' = body
    /\ sessionId' = sessionId
    /\ IF body.k = "bad" THEN SingleCatch("parse")
       ELSE IF body.k = "null" THEN SingleCatch("type")
       ELSE /\ messages' = Append(messages, AssistantMsg(ResponseOf(body.o)))
            /\ Finally("ok")
    /\ UNCHANGED <<input, view, requests, total, submitted, streamOnly, health>>

\* response.json() settles: it rejects on a body that is no JSON; reading
\* data.session_id of null throws; else the session is stored and the
\* assistant message appended
SingleJson(body) ==
    /\ pc = "json"
    /\ reply' = body
    /\ IF body.k = "bad" THEN SingleCatch("parse") /\ sessionId' = sessionId
       ELSE IF body.k = "null" THEN SingleCatch("type") /\ sessionId' = sessionId
       ELSE /\ sessionId' = SessionOf(body.o)
            /\ messages' = Append(messages, AssistantMsg(ResponseOf(body.o)))
            /\ Finally("ok")
    /\ UNCHANGED <<input, view, requests, total, submitted, streamOnly, health>>

\* ------------------------------------------------- the App health display
\* bodies of a /api/health response
HealthyBody == Obj([status |-> "healthy"])
DegradedBody == Obj([status |-> "degraded"])
HealthBodies == {HealthyBody, DegradedBody, OtherObj, JsonNull, NotJson}

\* data.status
StatusOf(o) == IF Has(o, "status") THEN o.status ELSE UNDEF

chat == <<store, view, pc, call, requests, wire, total, outcome, lastWrite, clears,
          submitted, reply, streamOnly>>

\* the effect with no dependencies runs once, after the first render
HealthMount ==
    /\ healthPc = "mount"
    /\ healthRequests' = healthRequests + 1
    /\ healthPc' = "fetch"
    /\ UNCHANGED <<backendStatus, healthBody, chat>>

\* .catch(() => setBackendStatus('error'))
HealthCatch == backendStatus' = "error"

\* the fetch promise rejects
HealthFetchReject ==
    /\ healthPc = "fetch"
    /\ HealthCatch
    /\ healthPc' = "done"
    /\ UNCHANGED <<healthRequests, healthBody, chat>>

\* the fetch promise resolves, with any HTTP status: res.json() is called
HealthFetchResolve ==
    /\ healthPc = "fetch"
    /\ healthPc' = "json"
    /\ UNCHANGED <<backendStatus, healthRequests, healthBody, chat>>

\* a display that takes every parsed body for a healthy backend
HealthJsonAnyBody(body) ==
    /\ healthPc = "json"
    /\ healthBody' = body
    /\ IF body.k = "bad" THEN HealthCatch
       ELSE backendStatus' = "healthy"
    /\ healthPc' = "done"
    /\ UNCHANGED <<healthRequests, chat>>

\* res.json() settles: it rejects on a body that is no JSON; reading
\* data.status of null throws in the then callback; both reach the catch
HealthJson(body) ==
    /\ healthPc = "json"
    /\ healthBody' = body
    /\ IF body.k = "bad" THEN HealthCatch
       ELSE IF body.k = "null" THEN HealthCatch
       ELSE IF StatusOf(body.o) = "healthy" THEN backendStatus' = "healthy"
       ELSE backendStatus' = "error"
    /\ healthPc' = "done"
    /\ UNCHANGED <<healthRequests, chat>>

\* ------------------------------- the page: single-shot chat and health display
InitPage ==
    /\ messages = <<>>
    /\ input = <<>>
    /\ sessionId = NULL
    /\ isLoading = FALSE
    /\ view = Snapshot(<<>>, <<>>, NULL, FALSE)
    /\ pc = "idle"
    /\ call = NoCall
    /\ requests = <<>>
    /\ backend = {}
    /\ wire = <<>>
    /\ sentShape = "chunks"
    /\ sentText = <<>>
    /\ outcome = "none"
    /\ total = 0
    /\ incs = <<>>
    /\ lastWrite = "none"
    /\ clears = 0
    /\ submitted = <<>>
    /\ reply = NoBody
    /\ backendStatus = "loading"
    /\ healthPc = "mount"
    /\ healthRequests = 0
    /\ healthBody = NoBody

NextPage ==
    \/ \E d \in Drafts : Type(d)
    \/ SendRejected
    \/ SingleSendStart
    \/ SingleFetchReject
    \/ \E ok \in BOOLEAN : SingleFetchResolve(ok)
    \/ \E body \in Replies : SingleJson(body)
    \/ Render
    \/ HealthMount
    \/ HealthFetchReject
    \/ HealthFetchResolve
    \/ \E body \in HealthBodies : HealthJson(body)

SpecPage == InitPage /\ [][NextPage]_vars

\* ------------------------------------------------------------------ claims
\* the assistant message appended by the latest exchange
Target == messages[Len(messages)]

InFlight == Len(requests) - clears

\* a string.trim() would return empty
Blank(s) == \A i \in 1..Len(s) : s[i] = " "

Transport == {"fetch", "status", "body", "read"}

\* decoded increments, by the fields they carry
ErrorIncs == {i \in 1..Len(incs) : IsError(incs[i])}
DoneIncs == {i \in 1..Len(incs) : incs[i].k = "obj" /\ Has(incs[i].o, "done")
                                   /\ ~Has(incs[i].o, "error")}
SidIncs == {i \in 1..Len(incs) : (IsChunk(incs[i]) \/ IsDone(incs[i]))
                                  /\ Has(incs[i].o, "session_id")}
BadIncs == {i \in 1..Len(incs) : incs[i] = NotJson}

Max(S) == CHOOSE x \in S : \A y \in S : y <= x

RECURSIVE ChunkText(_)
ChunkText(seq) ==
    IF seq = <<>> THEN <<>>
    ELSE (IF IsChunk(Head(seq)) THEN Head(seq).o.chunk ELSE <<>>) \o ChunkText(Tail(seq))

\* the decoded increments are chunk increments followed by one done increment
EndsWithDone ==
    /\ Len(incs) >= 1
    /\ IsDone(incs[Len(incs)])
    /\ \A i \in 1..(Len(incs) - 1) : IsChunk(incs[i])

\* C1 (as claimed): when the backend sent chunk increments c1..cn and then a
\* done increment, and the body was read to its end, the assistant message
\* holds c1+...+cn, however the bytes were cut into read blocks.
C1_ConcatenationForEverySplit ==
    (outcome = "closed" /\ sentShape = "done") => Target.content = sentText

\* C2 (as claimed): once the exchange has ended, if an increment with an error
\* field was decoded, the assistant message holds the apology string,
\* whatever the error text.
C2_ErrorGivesApology ==
    (pc = "idle" /\ ErrorIncs # {}) => Target.content = Apology

\* C3: the Busy Flag is cleared exactly once per started exchange, by the
\* step that ends the exchange (whatever the outcome), and that clear is the
\* last Store mutation of the exchange: while the exchange runs the flag has
\* not been cleared, and once it has ended the flag was cleared once and no
\* write of the exchange came after it.
C3_BusyClearedOnceAndLast ==
    /\ pc # "idle" => (InFlight = 1 /\ outcome = "none")
    /\ (pc = "idle" /\ Len(requests) > 0) =>
          /\ InFlight = 0
          /\ outcome # "none"
          /\ lastWrite = "setIsLoading(false)"
          /\ ~isLoading

C3_Witness ==
    /\ pc = "idle" /\ Len(requests) = 2 /\ clears = 2
    /\ outcome = "decode" /\ Len(incs) >= 2

\* C4: at most one exchange is in flight, and while one is in flight no step
\* (so no submission, whenever it is triggered relative to renders) appends a
\* message or issues a request.
C4_BusyGating ==
    /\ [](InFlight \in {0, 1} /\ Len(messages) = 2 * Len(requests))
    /\ [][pc # "idle" => (requests' = requests /\ Len(messages') = Len(messages))]_vars

C4_Witness ==
    /\ pc = "read" /\ InFlight = 1 /\ Len(requests) = 1 /\ Len(messages) = 2
    /\ ~Accepts(view) /\ view.isLoading /\ Len(incs) >= 1

\* C5 (as claimed): once a done increment has been processed, no increment
\* that is parsed after it (a whole line with valid JSON) changes the
\* assistant message or the session identifier or ends the exchange in
\* failure.
C5_NothingAfterDone ==
    [][(/\ pc = "read" /\ DoneIncs # {} /\ incs' # incs
        /\ \A i \in (Len(incs) + 1)..Len(incs') : incs'[i] # NotJson) =>
          (messages' = messages /\ sessionId' = sessionId /\ pc' = "read")]_vars

\* C6 (as claimed): after an exchange that ended without failure, the Store
\* holds the session_id of the last decoded chunk or done increment that
\* carried one.
C6_LastSessionIdWins ==
    (outcome = "closed" /\ SidIncs # {}) => sessionId = incs[Max(SidIncs)].o.session_id

\* C7: a line that starts with the event prefix and whose remainder is not
\* valid JSON is the last line the exchange parses: the exchange has ended,
\* the assistant message holds the apology string and the Busy Flag is false.
C7_MalformedLineAborts ==
    BadIncs # {} =>
        /\ BadIncs = {Len(incs)}
        /\ pc = "idle" /\ outcome = "decode"
        /\ Target.content = Apology
        /\ ~isLoading

C7_Witness ==
    /\ BadIncs # {} /\ Len(incs) >= 2 /\ IsChunk(incs[1])
    /\ Target.content = Apology /\ ~isLoading

\* C8: while the draft the submit handlers see is empty or whitespace only,
\* no step appends a message, issues a request or sets the Busy Flag.
C8_BlankDraftIsNoOp ==
    [][Blank(view.input) =>
          /\ requests' = requests
          /\ Len(messages') = Len(messages)
          /\ (isLoading' => isLoading)]_vars

C8_Witness ==
    /\ view.input = <<" ">> /\ input = <<" ">> /\ pc = "idle" /\ ~view.isLoading
    /\ ~Accepts(view) /\ Len(requests) = 1

C10_TransportFailure ==
    [][(pc # "idle" /\ outcome' \in Transport) =>
          /\ Len(messages') = Len(messages)
          /\ messages'[Len(messages)].content = Apology
          /\ messages'[Len(messages)].role = "assistant"
          /\ \A i \in 1..(Len(messages) - 1) : messages'[i] = messages[i]]_vars

C10_Witness ==
    /\ outcome = "read" /\ ChunkText(incs) # <<>> /\ Target.content = Apology
    /\ Len(messages) = 2 * Len(requests)

Failures == Transport \cup {"decode"}

\* the session_id reads of the increments a step parsed before the one that
\* failed it
SidsBeforeFailure ==
    {SessionOf(incs'[i].o) :
        i \in {j \in (Len(incs) + 1)..(Len(incs') - 1) : incs'[j].k = "obj"}}

\* C11: a step that ends the exchange in failure leaves the session identifier
\* at the value it had when the failure was detected: the value before the
\* step when the failing line is the only one the step parsed, else that
\* value or one written by an increment parsed before the failing line; an
\* identifier that was not null is not null afterwards.
C11_FailureKeepsSession ==
    [][(pc # "idle" /\ outcome' \in Failures) =>
          /\ (sessionId' = NULL => sessionId = NULL)
          /\ (Len(incs') <= Len(incs) + 1 => sessionId' = sessionId)
          /\ sessionId' \in {sessionId} \cup SidsBeforeFailure]_vars

C11_Witness ==
    /\ pc = "idle" /\ outcome = "decode" /\ ErrorIncs = {Len(incs)}
    /\ Len(incs) >= 2 /\ sessionId = "A"

\* C12: after an exchange whose body ended without a done or error increment
\* having been decoded, the assistant message holds the chunk texts written
\* so far and not the apology string, and the Busy Flag is false.
C12_ExhaustionIsNormalClose ==
    (outcome = "closed" /\ DoneIncs = {} /\ ErrorIncs = {}) =>
        /\ Target.content = ChunkText(incs)
        /\ Target.content # Apology
        /\ pc = "idle" /\ ~isLoading

C12_Witness ==
    /\ outcome = "closed" /\ DoneIncs = {} /\ ErrorIncs = {}
    /\ Len(incs) = 2 /\ Target.content = <<"a", "b">> /\ ~isLoading

\* C13: no step shortens the message list or changes the role at a position
\* that exists; a step of a running exchange (chunk write, apology write)
\* keeps the number of messages and changes at most the content of one.
C13_AppendOnlyList ==
    [][/\ Len(messages') >= Len(messages)
       /\ \A i \in 1..Len(messages) : messages'[i].role = messages[i].role
       /\ pc # "idle" =>
             /\ Len(messages') = Len(messages)
             /\ Cardinality({i \in 1..Len(messages) : messages'[i] # messages[i]}) <= 1]_vars

C13_Witness ==
    /\ Len(messages) = 4 /\ messages[2].content = Apology
    /\ messages[4].content = <<"a">> /\ messages[1].role = "user"
    /\ messages[3].role = "user"

\* the request a step issued
NewRequest == requests'[Len(requests')]

\* C14: the first request carries session_id null; every step that issues a
\* request issues one, and its session_id reads as the identifier the Store
\* holds at that moment; between exchanges the Store's identifier does not
\* change, so turn n+1 carries what turn n left.
C14_RequestCarriesStoredSession ==
    /\ [](Len(requests) >= 1 =>
            (Has(requests[1], "session_id") /\ requests[1].session_id = NULL))
    /\ [][requests' # requests =>
            /\ requests' = Append(requests, NewRequest)
            /\ SessionOf(NewRequest) = sessionId]_vars
    /\ [][pc = "idle" => sessionId' = sessionId]_vars

C14_Witness ==
    /\ Len(requests) = 2 /\ requests[1].session_id = NULL
    /\ Has(requests[2], "session_id") /\ requests[2].session_id = "B"
    /\ sessionId = "B"

\* the step parsed an increment that carries the identifier it stored
NewSidCarried ==
    \E i \in (Len(incs) + 1)..Len(incs') :
        incs'[i].k = "obj" /\ SessionOf(incs'[i].o) = sessionId'

\* C15 (as claimed): once the Store holds an identifier handed back by the
\* backend, every step leaves an identifier in it, and a step that changes
\* it parsed an increment carrying the new identifier.
C15_NeverInvalidated ==
    [][(sessionId \in SessionIds) =>
          (sessionId' \in SessionIds /\ (sessionId' # sessionId => NewSidCarried))]_vars

\* C16: while an exchange runs, the remembered index is the index of the
\* assistant placeholder the exchange appended (the last message, the second
\* of the exchange), and no step of the exchange changes another message.
C16_TargetPosition ==
    /\ [](pc # "idle" =>
            /\ Len(messages) = 2 * Len(requests)
            /\ call.assistantMessageIndex + 1 = Len(messages)
            /\ messages[call.assistantMessageIndex + 1].role = "assistant")
    /\ [][pc # "idle" =>
            \A i \in 1..Len(messages) :
                i # call.assistantMessageIndex + 1 => messages'[i] = messages[i]]_vars

C16_Witness ==
    /\ pc = "read" /\ Len(requests) = 2 /\ call.assistantMessageIndex = 3
    /\ messages[4] = AssistantMsg(<<"a">>) /\ messages[2] = AssistantMsg(Apology)

\* what the closures of the latest render see is the Store
Rendered == view = Snapshot(messages, input, sessionId, isLoading)

\* C17: after an exchange that ended in failure the Busy Flag is false and,
\* once that is rendered, a non-blank draft passes the guard of sendMessage;
\* the submission that follows appends the user message and the placeholder,
\* issues one request and sets the Busy Flag.
C17_UsableAfterFailure ==
    /\ []((pc = "idle" /\ outcome \in Failures) =>
            /\ ~isLoading
            /\ (Rendered /\ ~Blank(input)) => Accepts(view))
    /\ [][(pc = "idle" /\ outcome \in Failures /\ pc' # "idle") =>
            /\ messages' = messages \o <<UserMsg(Trim(input)), AssistantMsg(<<>>)>>
            /\ Len(requests') = Len(requests) + 1
            /\ NewRequest.message = Trim(input)
            /\ isLoading']_vars

C17_Witness ==
    /\ pc = "fetch" /\ Len(requests) = 2 /\ isLoading
    /\ messages[2] = AssistantMsg(Apology)
    /\ messages[3] = UserMsg(<<"q">>) /\ messages[4] = AssistantMsg(<<>>)

\* C18 (as claimed): once a done increment has been processed the exchange
\* has ended and the Busy Flag is false, whatever the channel does next.
C18_DoneEndsExchange ==
    DoneIncs # {} => (pc = "idle" /\ ~isLoading)

\* C19: while the body is read, the content at the target position is the
\* accumulated-content buffer, and the buffer is the concatenation of the
\* texts of the chunk increments applied so far in this exchange; it is empty
\* when the exchange starts.
C19_FullReplace ==
    /\ pc = "fetch" => (Target.content = <<>> /\ incs = <<>>)
    /\ pc = "read" =>
          /\ Target.content = call.accumulatedContent
          /\ call.accumulatedContent = ChunkText(incs)

C19_Witness ==
    /\ pc = "read" /\ Len(incs) = 3 /\ \A i \in 1..3 : IsChunk(incs[i])
    /\ Target.content = <<"a", "b", "a">>

\* an increment with more than one of the fields error, done, chunk
MultiField(p) ==
    p.k = "obj" /\ Cardinality(DOMAIN p.o \cap {"error", "done", "chunk"}) >= 2

\* C20: an increment with several of the fields error, done, chunk takes the
\* first branch in the order error, done, chunk: with an error text it is the
\* last increment parsed and the exchange has failed (apology string); with
\* done and no error its chunk text is not appended and its session_id is
\* stored.
C20_DispatchPriority ==
    /\ \A i \in 1..Len(incs) :
          (MultiField(incs[i]) /\ ErrorTruthy(incs[i].o)) =>
              /\ i = Len(incs)
              /\ pc = "idle" /\ outcome = "decode"
              /\ Target.content = Apology
    /\ (/\ pc = "read" /\ Len(incs) >= 1
        /\ MultiField(incs[Len(incs)]) /\ DoneTruthy(incs[Len(incs)].o)) =>
              /\ Target.content = ChunkText(incs)
              /\ sessionId = SessionOf(incs[Len(incs)].o)

C20_Witness ==
    /\ pc = "read" /\ incs = <<ChunkA, DoneAndChunk>>
    /\ Target.content = <<"a">> /\ sessionId = "B"

\* the increment parsed last
LastInc == incs[Len(incs)]

\* C21 (as claimed): every decoded increment with an error field has failed
\* the exchange, and a chunk increment, once parsed, has been applied and its
\* session_id stored, whatever the text of the field.
C21_DispatchByPresence ==
    /\ \A i \in ErrorIncs : i = Len(incs) /\ pc = "idle" /\ outcome = "decode"
    /\ (/\ pc = "read" /\ Len(incs) >= 1
        /\ IsChunk(LastInc) /\ Has(LastInc.o, "session_id")) =>
            sessionId = LastInc.o.session_id

\* valid JSON that is none of the shapes error, done, chunk
Unshaped(p) ==
    \/ p.k = "null"
    \/ p.k = "obj" /\ DOMAIN p.o \cap {"error", "done", "chunk"} = {}

\* C22 (as claimed): a step of the decode loop that parsed only payloads of
\* no known shape leaves messages, session identifier and Busy Flag as they
\* were and stays in the loop.
C22_UnknownShapeIsNoOp ==
    [][(/\ pc = "read" /\ incs' # incs
        /\ \A i \in (Len(incs) + 1)..Len(incs') : Unshaped(incs'[i])) =>
          /\ messages' = messages
          /\ sessionId' = sessionId
          /\ isLoading' = isLoading
          /\ pc' = "read"]_vars

\* the state the decode loop works on
LoopState ==
    [messages |-> messages, sessionId |-> sessionId,
     acc |-> call.accumulatedContent, incs |-> incs,
     lastWrite |-> lastWrite, status |-> "run"]

\* the unread bytes start at the start of a line
AtLineStart == wire # <<>> /\ wire[1].t \in {"D1", "X"}

\* the unread bytes are lines without the event prefix only
PlainOnly == \A i \in 1..Len(wire) : wire[i].t \in {"X", "NL"}

\* a block without its complete lines that have no event prefix
RECURSIVE RemovePlain(_)
RemovePlain(block) ==
    IF block = <<>> THEN <<>>
    ELSE IF Len(block) >= 2 /\ block[1].t = "X" /\ block[2].t = "NL"
    THEN RemovePlain(SubSeq(block, 3, Len(block)))
    ELSE <<Head(block)>> \o RemovePlain(Tail(block))

\* C23: a read block of complete lines is decoded as the same block without
\* its lines that lack the event prefix; and a step that reads when only such
\* lines are unread parses nothing, changes no Store state and stays in the
\* loop.
C23_NonEventLineIgnored ==
    /\ []((pc = "read" /\ AtLineStart) =>
            \A n \in {k \in 1..Len(wire) : wire[k].t = "NL"} :
                DecodeBlock(SubSeq(wire, 1, n), LoopState, call.assistantMessageIndex)
                  = DecodeBlock(RemovePlain(SubSeq(wire, 1, n)), LoopState,
                                call.assistantMessageIndex))
    /\ [][(/\ pc = "read" /\ AtLineStart /\ PlainOnly
           /\ Len(wire') < Len(wire) /\ outcome' # "read") =>
            /\ incs' = incs
            /\ messages' = messages /\ sessionId' = sessionId
            /\ isLoading' = isLoading
            /\ pc' = "read"]_vars

C23_Witness ==
    /\ pc = "read"
    /\ wire = Bytes(PlainLine) \o Bytes(EventLine(ChunkA))
    /\ DecodeBlock(wire, LoopState, call.assistantMessageIndex).acc = <<"a">>
    /\ DecodeBlock(wire, LoopState, call.assistantMessageIndex).status = "run"

\* C24: the Busy Flag is true in every state in which an exchange is in
\* flight, and a step clears it only by ending the exchange: on the end of
\* the body, or on a failure.  With no such step it stays set.
C24_BusyWhileInFlight ==
    /\ [](pc # "idle" => isLoading)
    /\ [][(isLoading /\ ~isLoading') =>
            /\ pc # "idle" /\ pc' = "idle"
            /\ outcome' \in {"closed"} \cup Failures]_vars

C24_Witness ==
    /\ pc = "read" /\ isLoading /\ wire = <<>> /\ Len(incs) = 2
    /\ DoneIncs = {} /\ ErrorIncs = {} /\ Target.content = <<"a", "b">>

\* C25: the step that starts an exchange clears the draft, sets the Busy
\* Flag, appends a user message with the trimmed draft and after it an
\* assistant message with empty content, and issues the request, all in one
\* step (before the first suspension point).
C25_StartOfExchange ==
    [][(pc = "idle" /\ pc' # "idle") =>
          /\ input' = <<>>
          /\ isLoading'
          /\ Len(messages') = Len(messages) + 2
          /\ SubSeq(messages', 1, Len(messages)) = messages
          /\ messages'[Len(messages) + 1] = [role |-> "user", content |-> Trim(input)]
          /\ messages'[Len(messages) + 2] = [role |-> "assistant", content |-> <<>>]
          /\ pc' = "fetch"]_vars

C25_Witness ==
    /\ pc = "fetch" /\ input = <<>> /\ isLoading /\ Len(requests) = 1
    /\ submitted = <<" ", "q", " ">>
    /\ messages = <<[role |-> "user", content |-> <<"q">>],
                    [role |-> "assistant", content |-> <<>>]>>

\* exchanges started so far: the ended ones and the running one
Started == clears + (IF pc = "idle" THEN 0 ELSE 1)

\* C26: the number of requests issued equals the number of exchanges started;
\* the start of an exchange issues one request and no step of a running
\* exchange, a failure included, issues another.
C26_OneRequestPerExchange ==
    /\ [](Len(requests) = Started)
    /\ [][(pc = "idle" /\ pc' # "idle") => Len(requests') = Len(requests) + 1]_vars
    /\ [][pc # "idle" => requests' = requests]_vars

C26_Witness ==
    /\ pc = "idle" /\ Len(requests) = 2 /\ clears = 2 /\ outcome = "fetch"
    /\ messages[2].content = Apology /\ messages[4].content = Apology

\* C27: no step changes a user message: each keeps the content it was
\* created with, through chunk writes, apology writes and later exchanges.
C27_UserContentWriteOnce ==
    [][\A i \in 1..Len(messages) :
          messages[i].role = "user" => messages'[i] = messages[i]]_vars

C27_Witness ==
    /\ Len(messages) = 4
    /\ messages[1] = [role |-> "user", content |-> <<"q">>]
    /\ messages[3] = [role |-> "user", content |-> <<"q">>]
    /\ messages[2].content = <<"a">> /\ messages[4].content = Apology

IsPrefix(s, t) == Len(s) <= Len(t) /\ SubSeq(t, 1, Len(s)) = s

\* C28: a step that changes the content of a message to a value the previous
\* content is not a prefix of is the apology write of a failure; every other
\* write of a running exchange extends the content.
C28_AssistantAppendOnly ==
    [][\A i \in 1..Len(messages) :
          ~IsPrefix(messages[i].content, messages'[i].content) =>
              /\ messages'[i].content = Apology
              /\ pc # "idle" /\ outcome' \in Failures]_vars

C28_Witness ==
    /\ pc = "read" /\ Len(incs) = 2 /\ Len(requests) = 1
    /\ incs = <<ChunkA, ChunkB>> /\ Target.content = <<"a", "b">>

\* C29: no step changes a message of an exchange that has ended: while no
\* exchange runs no message changes, and a running exchange changes none but
\* the two it created.
C29_EarlierMessagesFinal ==
    [][\A i \in 1..Len(messages) :
          (pc = "idle" \/ i <= Len(messages) - 2) => messages'[i] = messages[i]]_vars

C29_Witness ==
    /\ pc = "read" /\ Len(messages) = 4
    /\ messages[2].content = <<"a">> /\ messages[4].content = <<"b">>

\* C30: the roles alternate, starting with user, and while no exchange is in
\* flight the list has two messages per exchange started.
C30_AlternatingRoles ==
    /\ \A i \in 1..Len(messages) :
          messages[i].role = (IF i % 2 = 1 THEN "user" ELSE "assistant")
    /\ pc = "idle" => Len(messages) = 2 * Started

C30_Witness ==
    /\ pc = "idle" /\ outcome = "closed" /\ Started = 2 /\ Len(messages) = 4
    /\ messages[1].role = "user" /\ messages[2].role = "assistant"
    /\ messages[3].role = "user" /\ messages[4].role = "assistant"
    /\ messages[4].content = <<"a">>

\* C31: single-shot mode.  While an exchange runs the Busy Flag is true and
\* the list ends with the one user message of the exchange (the trimmed
\* draft); the step that ends it appends one assistant message, with the
\* response text when a reply was parsed and with the apology string on every
\* failure, and leaves the Busy Flag false; between exchanges the list has two
\* messages per exchange.
C31_SingleShotExchange ==
    /\ [](pc # "idle" =>
            /\ isLoading
            /\ Len(messages) = 2 * Len(requests) - 1
            /\ messages[Len(messages)] = [role |-> "user", content |-> Trim(submitted)])
    /\ [](pc = "idle" => (~isLoading /\ Len(messages) = 2 * Len(requests)))
    /\ [][(pc = "idle" /\ pc' # "idle") =>
            messages' = Append(messages, [role |-> "user", content |-> Trim(input)])]_vars
    /\ [][(pc # "idle" /\ pc' = "idle") =>
            /\ ~isLoading'
            /\ (outcome' = "ok") = (pc = "json" /\ reply'.k = "obj")
            /\ messages' = Append(messages,
                   [role |-> "assistant",
                    content |-> IF outcome' = "ok" THEN reply'.o.response ELSE Apology])]_vars

C31_Witness ==
    /\ pc = "idle" /\ ~isLoading /\ Len(messages) = 4 /\ outcome = "parse"
    /\ messages[1] = [role |-> "user", content |-> <<"q">>]
    /\ messages[2] = [role |-> "assistant", content |-> <<"s">>]
    /\ messages[4] = [role |-> "assistant", content |-> Apology]

\* every assistant message so far is the apology: no exchange has succeeded
NoSuccessYet ==
    \A i \in 1..Len(messages) :
        messages[i].role = "assistant" => messages[i].content = Apology

\* C32: single-shot mode.  The session identifier changes only in the step
\* that ends an exchange with a parsed reply, to the session_id read from
\* that reply; a step that ends an exchange in failure leaves it as it was;
\* each request carries the identifier the Store holds, which is null as long
\* as no exchange has succeeded.
C32_SingleShotSession ==
    /\ [][sessionId' # sessionId => (pc = "json" /\ outcome' = "ok")]_vars
    /\ [][(pc # "idle" /\ pc' = "idle") =>
            sessionId' = (IF outcome' = "ok" THEN SessionOf(reply'.o) ELSE sessionId)]_vars
    /\ [][requests' # requests =>
            /\ requests' = Append(requests, NewRequest)
            /\ SessionOf(NewRequest) = sessionId]_vars
    /\ [](NoSuccessYet => sessionId = NULL)

C32_Witness ==
    /\ Len(requests) = 3 /\ pc = "fetch"
    /\ messages[2].content = <<"r">> /\ messages[4].content = Apology
    /\ requests[1].session_id = NULL
    /\ Has(requests[3], "session_id") /\ requests[3].session_id = "A"
    /\ sessionId = "A"

\* the health response that was parsed says healthy
SaysHealthy ==
    /\ healthBody.k = "obj"
    /\ Has(healthBody.o, "status")
    /\ healthBody.o.status = "healthy"

\* C33: at most one health request is issued, and it has been issued once the
\* effect has run; the status is loading until the request has settled; once
\* settled it is healthy when the parsed body's status is "healthy" and error
\* in every other case (other status, no status, body that is no JSON or no
\* object, rejected request); after leaving loading it does not change.
C33_HealthDisplay ==
    /\ [](healthRequests = (IF healthPc = "mount" THEN 0 ELSE 1))
    /\ [](healthPc # "done" => backendStatus = "loading")
    /\ [](healthPc = "done" =>
            backendStatus = (IF SaysHealthy THEN "healthy" ELSE "error"))
    /\ [][backendStatus # "loading" => backendStatus' = backendStatus]_vars

C33_Witness ==
    /\ healthPc = "done" /\ healthRequests = 1
    /\ healthBody = DegradedBody /\ backendStatus = "error"
    /\ Len(messages) = 2

====
